---- MODULE Spec2Model ----
(***************************************************************************)
(* A model of twinfield-metrics: the TwinfieldApi session client           *)
(* (twinfield.py) and the ledger extraction script (main.py).              *)
(*                                                                         *)
(* Amounts are floating point numbers in the program.  The model keeps     *)
(* them as integers counting quarters (n stands for n/4): on such dyadic   *)
(* values IEEE-754 double addition is exact, so float arithmetic and the   *)
(* integer arithmetic here agree.  Ledger account identifiers are strings  *)
(* in the program; the model writes them as integers whose order is the    *)
(* order sorted() gives the strings.                                       *)
(***************************************************************************)
EXTENDS Integers, Sequences, FiniteSets, TLC

VARIABLES
    mode,            \* "main" | "test" (main.py:156-159), "ledger" | "api" for the other specifications
    now,             \* datetime.now(): [year, month]
    pc,              \* position of the running script
    sessionid,       \* TwinfieldApi.__sessionid
    root_url,        \* TwinfieldApi._root_url
    office,          \* TwinfieldApi.office
    updated_office,  \* TwinfieldApi.updated_office
    ret,             \* which call of get_ledger is running: "prev" | "cur" | "caller"
    gl_year,         \* get_ledger: year
    gl_month,        \* get_ledger: month
    gl_i,            \* get_ledger: loop variable i
    values_to_save,  \* get_ledger: values_to_save
    yearmonthdict,   \* get_ledger: yearmonthdict
    gl_month_data,   \* get_ledger: month_data
    save,            \* get_ledger: save (unbound until first assigned)
    month_data,      \* main: month_data
    sink,            \* the batches written to InfluxDB, in order
    exc,             \* the exception that ended the run, or NoExc
    rowsDone,        \* rows of the current response already iterated
    last,            \* outcome of the last call made on the client
    calls,           \* number of calls made on the client by a free caller
    \* history variables (not program state)
    discovered,      \* accounts of the rows of the discovery response
    rawsum,          \* per account, exact sum of the month's row amounts
    ref_dict,        \* yearmonthdict of the same code on the response without its dimension-less rows
    ref_save,        \* save of that reference run
    skipped,         \* a dimension-less row was iterated in the current month
    rowfault,        \* "dimless" when iterating a dimension-less row raised, "other" for another row
    requested,       \* the [year, month] pairs a monthly request was sent for
    non2xx,          \* some data request was answered with a non-2xx status
    opened,          \* a start_session returned normally and left a session token
    nLogon, nSend, nLogoff, nEndSession

vars == <<mode, now, pc, sessionid, root_url, office, updated_office, ret,
          gl_year, gl_month, gl_i, values_to_save, yearmonthdict,
          gl_month_data, save, month_data, sink, exc, rowsDone, last, calls,
          discovered, rawsum, ref_dict, ref_save, skipped, rowfault, requested,
          non2xx, opened, nLogon, nSend, nLogoff, nEndSession>>

clientVars == <<sessionid, root_url, office, updated_office>>
ledgerVars == <<gl_year, gl_month, gl_i, values_to_save, yearmonthdict,
                gl_month_data, save>>
ghostVars == <<discovered, rawsum, ref_dict, ref_save, skipped, rowfault>>
countVars == <<nLogon, nSend, nLogoff, nEndSession>>

(***************************************************************************)
(* Values                                                                  *)
(***************************************************************************)
None == "None"
NoExc == "none"
\* The local variable save: not yet assigned, None, or an account.
SaveUnbound == [st |-> "unbound", v |-> 0]
SaveNone == [st |-> "none", v |-> 0]
SaveOf(a) == [st |-> "value", v |-> a]
EmptyDict == [k \in {} |-> 0]

\* Bounds of the exploration.
MaxRows == 2
MaxMonth == 2
MaxCalls == 5

December == 12

Years == {2024}
Accounts == {1, 2, 3}

(***************************************************************************)
(* XML responses: a document is a sequence of tr rows, a row the sequence  *)
(* of its child nodes.  A node is a text node or an element; an element    *)
(* has a field attribute or none, and a first child text or none.          *)
(***************************************************************************)
Node(node, field, k, sign, whole, frac) ==
    [node |-> node, field |-> field, k |-> k, sign |-> sign, whole |-> whole, frac |-> frac]

TextNode == Node("text", "none", "empty", 1, 0, 0)
Plain == Node("element", "none", "empty", 1, 0, 0)
Other == Node("element", "other", "empty", 1, 0, 0)
Dim(a) == Node("element", "dim1", "acct", 1, a, 0)
DimEmpty == Node("element", "dim1", "empty", 1, 0, 0)
Val(sign, whole, frac) == Node("element", "valuesigned", "num", sign, whole, frac)
ValBad == Node("element", "valuesigned", "bad", 1, 0, 0)

\* td.attributes is None on a text node: attributes.keys() raises.
HasAttributes(td) == td.node = "element"
\* 'field' in attributes.keys() and attributes.get('field').value == f
FieldIs(td, f) == td.field = f
\* td.firstChild is None on an element without content.
HasFirstChild(td) == td.k # "empty"
\* td.firstChild.nodeValue of a dimension cell
NodeValue(td) == td.whole
\* float(td.firstChild.nodeValue): the decimal text sign whole.frac, in quarters
IsFloat(td) == td.k = "num"
Float(td) == td.sign * (4 * td.whole + td.frac \div 25)

(***************************************************************************)
(* get_ledger: the row loops                                               *)
(***************************************************************************)
InList(x, list) == \E j \in 1..Len(list) : list[j] = x

\* The account discovery scan of one row from cell j on. The result is the
\* list, the value save is left with and the exception raised, if any.
RECURSIVE DiscoverScan(_, _, _, _)
DiscoverScan(tds, j, vals, sv) ==
    IF j > Len(tds) THEN [vals |-> vals, save |-> sv, err |-> NoExc]
    ELSE LET td == tds[j] IN
         IF ~HasAttributes(td)
         THEN [vals |-> vals, save |-> SaveNone, err |-> "AttributeError"]
         ELSE IF FieldIs(td, "dim1")
         THEN IF ~HasFirstChild(td)
              THEN [vals |-> vals, save |-> SaveNone, err |-> "AttributeError"]
              ELSE IF ~InList(NodeValue(td), vals)
              THEN [vals |-> Append(vals, NodeValue(td)), save |-> SaveNone, err |-> NoExc]
              ELSE [vals |-> vals, save |-> SaveNone, err |-> NoExc]
         ELSE DiscoverScan(tds, j + 1, vals, SaveNone)

DiscoverRowStep(vals, sv, tds) == DiscoverScan(tds, 1, vals, sv)

\* sorted(values_to_save), by insertion.
RECURSIVE Insert(_, _)
Insert(x, list) ==
    IF list = <<>> THEN <<x>>
    ELSE IF x <= Head(list) THEN <<x>> \o list
    ELSE <<Head(list)>> \o Insert(x, Tail(list))

RECURSIVE Sorted(_)
Sorted(list) == IF list = <<>> THEN <<>> ELSE Insert(Head(list), Sorted(Tail(list)))

\* A seeding that leaves out the accounts after the first.
SeedDictFirst(vals) == [k \in {vals[j] : j \in 1..Len(vals) \cap {1}} |-> 0]

\* {key: 0 for key in values_to_save}
SeedDict(vals) == [k \in {vals[j] : j \in 1..Len(vals)} |-> 0]

\* The month's first loop over a row: the search for the dimension cell.
RECURSIVE DimScan(_, _, _, _)
DimScan(tds, j, vals, sv) ==
    IF j > Len(tds) THEN [save |-> sv, err |-> NoExc]
    ELSE LET td == tds[j] IN
         IF ~HasAttributes(td) THEN [save |-> SaveNone, err |-> "AttributeError"]
         ELSE IF FieldIs(td, "dim1")
         THEN IF ~HasFirstChild(td) THEN [save |-> SaveNone, err |-> "AttributeError"]
              ELSE IF InList(NodeValue(td), vals)
              THEN [save |-> SaveOf(NodeValue(td)), err |-> NoExc]
              ELSE [save |-> SaveNone, err |-> NoExc]
         ELSE DimScan(tds, j + 1, vals, SaveNone)

\* A rounding that takes a tie away from zero.
RoundHalfAway(q) == IF q >= 0 THEN (q + 2) \div 4 ELSE -((2 - q) \div 4)

\* int(round(x)) of a float x given in quarters: Python 3 rounds a tie to
\* the even neighbour.
Round(q) ==
    LET f == q \div 4
        r == q % 4
    IN IF r < 2 THEN f
       ELSE IF r > 2 THEN f + 1
       ELSE IF f % 2 = 0 THEN f ELSE f + 1

\* An accumulation that rounds each row before adding it.
AddendRounded(x) == 4 * Round(x)

\* What one row's amount adds to the running sum of its account.
Addend(x) == x

\* The month's second loop over a row: the search for the value cell.
RECURSIVE ValueScan(_, _, _, _)
ValueScan(tds, j, dict, key) ==
    IF j > Len(tds) THEN [dict |-> dict, err |-> NoExc]
    ELSE LET td == tds[j] IN
         IF ~HasAttributes(td) THEN [dict |-> dict, err |-> "AttributeError"]
         ELSE IF FieldIs(td, "valuesigned")
         THEN IF ~HasFirstChild(td) THEN [dict |-> dict, err |-> "AttributeError"]
              ELSE IF ~IsFloat(td) THEN [dict |-> dict, err |-> "ValueError"]
              ELSE IF key \notin DOMAIN dict THEN [dict |-> dict, err |-> "KeyError"]
              ELSE [dict |-> [dict EXCEPT ![key] = @ + Addend(Float(td))], err |-> NoExc]
         ELSE ValueScan(tds, j + 1, dict, key)

\* One iteration of "for tr in trs" of the monthly accumulation.
MonthRowStep(dict, sv, vals, tds) ==
    LET d == DimScan(tds, 1, vals, sv) IN
    IF d.err # NoExc THEN [dict |-> dict, save |-> d.save, err |-> d.err]
    ELSE IF d.save.st = "unbound"
    THEN [dict |-> dict, save |-> d.save, err |-> "UnboundLocalError"]
    ELSE IF d.save.st = "value"
    THEN LET v == ValueScan(tds, 1, dict, d.save.v) IN
         [dict |-> v.dict, save |-> d.save, err |-> v.err]
    ELSE [dict |-> dict, save |-> d.save, err |-> NoExc]

\* yearmonthdict[key] = int(round(yearmonthdict[key])) for every key
RoundDict(dict) == [k \in DOMAIN dict |-> Round(dict[k])]

\* "%d/%s" % (year, i >= 10 and str(i) or "0%d" % i): year, two month digits
YearMonth(year, i) ==
    IF i >= 10 THEN <<year, i \div 10, i % 10>> ELSE <<year, 0, i>>

\* str(datetime.strptime("%s/01" % yearmonth, "%Y/%m/%d"))
Timestamp(yearmonth) ==
    [year |-> yearmonth[1], month |-> 10 * yearmonth[2] + yearmonth[3], day |-> 1]

\* d.update(e)
Update(d, e) ==
    [k \in DOMAIN d \cup DOMAIN e |-> IF k \in DOMAIN e THEN e[k] ELSE d[k]]

\* The whole "for tr in trs" loop of the discovery pass, from row j on.
RECURSIVE DiscoverRows(_, _, _, _)
DiscoverRows(rows, j, vals, sv) ==
    IF j > Len(rows) THEN [vals |-> vals, save |-> sv, err |-> NoExc]
    ELSE LET s == DiscoverRowStep(vals, sv, rows[j]) IN
         IF s.err # NoExc THEN s ELSE DiscoverRows(rows, j + 1, s.vals, s.save)

\* The whole "for tr in trs" loop of one month, from row j on.
RECURSIVE MonthRows(_, _, _, _, _)
MonthRows(rows, j, dict, sv, vals) ==
    IF j > Len(rows) THEN [dict |-> dict, save |-> sv, err |-> NoExc]
    ELSE LET s == MonthRowStep(dict, sv, vals, rows[j]) IN
         IF s.err # NoExc THEN s ELSE MonthRows(rows, j + 1, s.dict, s.save, vals)

(***************************************************************************)
(* What the remote ends may answer                                         *)
(***************************************************************************)
Nets == {"ok", "fail"}
Statuses == {200, 500}
Is2xx(status) == status >= 200 /\ status < 300

LogonResponses ==
    [net : Nets, xml : BOOLEAN, session : {"missing", None, "sid1"},
     cluster : {"missing", "https://c1"}]
LogoffResponses == [net : Nets, status : Statuses]
OfficeResponses ==
    [net : Nets, status : Statuses, xml : BOOLEAN,
     result : {"absent", "empty", "Ok", "No"}]
DataResponses(bodies) ==
    [net : Nets, status : Statuses, xml : BOOLEAN, rows : bodies]

\* The documents the accounting API answers a run of the script with: two
\* tables of rows, and one whose second row holds a text node.
RunBodies ==
    { << <<Dim(2), Val(1, 0, 50)>>, <<Other, Dim(1), Val(1, 0, 25)>>,
         <<Dim(2), Plain, Val(1, 1, 0)>> >>,
      << <<Dim(3), Val(1, 0, 50)>>, <<Dim(2), Val(1, 1, 50)>>, <<>>,
         <<Dim(1), Val(1, 0, 25)>> >>,
      << <<Dim(1), Val(1, 1, 50)>>, <<TextNode, Dim(2)>> >> }

(***************************************************************************)
(* TwinfieldApi                                                            *)
(***************************************************************************)
\* start_session, answered by r: the fields it leaves and what it raises.
start_session(r) ==
    IF r.net = "fail"
    THEN [sessionid |-> sessionid, root_url |-> root_url, exc |-> "ConnectionError"]
    ELSE IF ~r.xml
    THEN [sessionid |-> sessionid, root_url |-> root_url, exc |-> "ExpatError"]
    ELSE IF r.session = "missing"
    THEN [sessionid |-> sessionid, root_url |-> root_url, exc |-> "KeyError"]
    ELSE IF r.cluster = "missing"
    THEN [sessionid |-> r.session, root_url |-> root_url, exc |-> "KeyError"]
    ELSE [sessionid |-> r.session, root_url |-> r.cluster, exc |-> NoExc]

has_session == sessionid # None

\* end_session, answered by r if it posts. On a status other than 200 the
\* raise statement itself fails on response.code (AttributeError).
end_session(r) ==
    IF ~has_session
    THEN [sessionid |-> sessionid, office |-> office, updated_office |-> updated_office,
          exc |-> NoExc, posted |-> FALSE]
    ELSE IF r.net = "fail"
    THEN [sessionid |-> sessionid, office |-> office, updated_office |-> updated_office,
          exc |-> "ConnectionError", posted |-> TRUE]
    ELSE IF r.status # 200
    THEN [sessionid |-> sessionid, office |-> office, updated_office |-> updated_office,
          exc |-> "AttributeError", posted |-> TRUE]
    ELSE [sessionid |-> None, office |-> None, updated_office |-> FALSE,
          exc |-> NoExc, posted |-> TRUE]

\* send, answered by r: one post; the response is returned whatever its status.
send(r) ==
    IF r.net = "fail"
    THEN [exc |-> "ConnectionError", returned |-> FALSE, posts |-> 1]
    ELSE [exc |-> NoExc, returned |-> TRUE, posts |-> 1]

\* change_office, answered by r: what it raises.
change_office(r) ==
    LET s == send(r) IN
    IF s.exc # NoExc THEN s.exc
    ELSE IF ~r.xml THEN "ExpatError"
    ELSE IF r.result = "absent" THEN "IndexError"
    ELSE IF r.result = "empty" THEN "AttributeError"
    ELSE IF r.result # "Ok" THEN "AttributeError"
    ELSE NoExc

(***************************************************************************)
(* The frame of a call of get_ledger                                       *)
(***************************************************************************)
NewFrame(r, y, m) ==
    [ret |-> r, year |-> y, month |-> m, i |-> 0, vals |-> <<>>,
     dict |-> EmptyDict, md |-> EmptyDict, save |-> SaveUnbound]
NoFrame == NewFrame("none", 0, 0)
CurFrame ==
    [ret |-> ret, year |-> gl_year, month |-> gl_month, i |-> gl_i,
     vals |-> values_to_save, dict |-> yearmonthdict, md |-> gl_month_data,
     save |-> save]
SetFrame(f) ==
    /\ ret' = f.ret
    /\ gl_year' = f.year
    /\ gl_month' = f.month
    /\ gl_i' = f.i
    /\ values_to_save' = f.vals
    /\ yearmonthdict' = f.dict
    /\ gl_month_data' = f.md
    /\ save' = f.save

\* A body whose exception ends the run without __exit__.
RaiseTargetNoExit == IF mode = "ledger" THEN "raised" ELSE "aborted"

\* Where an exception raised in the body of the with block goes: to
\* __exit__ (twinfield.py:49-50); raised in get_ledger alone, to its caller.
RaiseTarget == IF mode = "ledger" THEN "raised" ELSE "exit"

\* Where a step of get_ledger leaves the script: o.exc is what it raised,
\* o.returns whether it reached "return month_data", o.frame its locals.
\* In main the result is merged into month_data and the next call, if any,
\* starts (main.py:30-32); an exception leaves the with block through
\* __exit__.
Finish(o, next) ==
    IF o.exc # NoExc
    THEN /\ exc' = o.exc
         /\ pc' = RaiseTarget
         /\ SetFrame(IF mode = "ledger" THEN o.frame ELSE NoFrame)
         /\ UNCHANGED month_data
    ELSE IF ~o.returns
    THEN /\ pc' = next
         /\ SetFrame(o.frame)
         /\ UNCHANGED <<month_data, exc>>
    ELSE IF mode = "ledger"
    THEN /\ pc' = "returned"
         /\ SetFrame(o.frame)
         /\ month_data' = o.frame.md
         /\ UNCHANGED exc
    ELSE /\ month_data' = Update(month_data, o.frame.md)
         /\ UNCHANGED exc
         /\ IF ret = "prev"
            THEN /\ SetFrame(NewFrame("cur", now.year, now.month - 1))
                 /\ pc' = "discover"
            ELSE /\ SetFrame(NoFrame)
                 /\ pc' = "exit"

\* The end of the discovery pass: sorted(values_to_save), then the month loop.
AfterDiscovery(vals, sv) ==
    [exc |-> NoExc,
     returns |-> gl_month < 1,
     frame |-> [CurFrame EXCEPT !.vals = Sorted(vals), !.save = sv,
                                !.i = IF gl_month < 1 THEN 0 ELSE 1]]

\* A month loop that stops one month early.
AfterMonthShort(dict, sv) ==
    LET rounded == RoundDict(dict)
        key == Timestamp(YearMonth(gl_year, gl_i))
    IN [exc |-> NoExc,
        returns |-> gl_i >= gl_month - 1,
        frame |-> [CurFrame EXCEPT !.dict = rounded, !.save = sv,
                                   !.md = Update(gl_month_data, (key :> rounded)),
                                   !.i = IF gl_i >= gl_month - 1 THEN gl_i ELSE gl_i + 1]]

\* The end of one month: rounding, the timestamp key, the next month.
AfterMonth(dict, sv) ==
    LET rounded == RoundDict(dict)
        key == Timestamp(YearMonth(gl_year, gl_i))
    IN [exc |-> NoExc,
        returns |-> gl_i >= gl_month,
        frame |-> [CurFrame EXCEPT !.dict = rounded, !.save = sv,
                                   !.md = Update(gl_month_data, (key :> rounded)),
                                   !.i = IF gl_i >= gl_month THEN gl_i ELSE gl_i + 1]]

Raised(e) == [exc |-> e, returns |-> FALSE, frame |-> CurFrame]

(***************************************************************************)
(* A run of the script: main (main.py:15-63) and test (main.py:131-148)    *)
(***************************************************************************)
\* The record of a call on the client: the method, whether the client held
\* a session, what the call raised, the status it was answered with (0: no
\* answer), whether it returned a response, the requests it posted, the
\* fields before it, and the shape of the calls so far ("open_closes": one
\* successful start_session followed by end_session calls only).
NoCall == [op |-> "none", had |-> FALSE, exc |-> NoExc, status |-> 0,
           returned |-> FALSE, posts |-> 0,
           before |-> <<None, None, None, FALSE>>, shape |-> "new"]

InitCommon ==
    /\ sessionid = None
    /\ root_url = None
    /\ office = "office1"
    /\ updated_office = FALSE
    /\ ret = "none" /\ gl_year = 0 /\ gl_month = 0 /\ gl_i = 0
    /\ values_to_save = <<>>
    /\ yearmonthdict = EmptyDict
    /\ gl_month_data = EmptyDict
    /\ save = SaveUnbound
    /\ month_data = EmptyDict
    /\ sink = <<>>
    /\ exc = NoExc
    /\ rowsDone = 0
    /\ last = NoCall
    /\ calls = 0
    /\ discovered = {}
    /\ rawsum = [a \in Accounts |-> 0]
    /\ ref_dict = EmptyDict
    /\ ref_save = SaveUnbound
    /\ skipped = FALSE
    /\ rowfault = "none"
    /\ requested = {}
    /\ non2xx = FALSE
    /\ opened = FALSE
    /\ nLogon = 0 /\ nSend = 0 /\ nLogoff = 0 /\ nEndSession = 0

Init ==
    /\ mode \in {"main", "test"}
    /\ now \in [year : Years, month : 1..12]
    /\ pc = "enter"
    /\ InitCommon

\* with TwinfieldApi(config['twinfield']) as conn: __enter__
Enter(r) ==
    /\ pc = "enter"
    /\ nLogon' = nLogon + 1
    /\ LET s == start_session(r) IN
       /\ sessionid' = s.sessionid
       /\ root_url' = s.root_url
       /\ opened' = (s.exc = NoExc /\ s.sessionid # None)
       /\ IF s.exc # NoExc
          THEN /\ exc' = s.exc
               /\ pc' = "aborted"
               /\ SetFrame(CurFrame)
          ELSE /\ UNCHANGED exc
               /\ IF mode = "test"
                  THEN pc' = "change_office" /\ SetFrame(CurFrame)
                  ELSE /\ pc' = "discover"
                       /\ IF now.month < 3
                          THEN SetFrame(NewFrame("prev", now.year - 1, December))
                          ELSE SetFrame(NewFrame("cur", now.year, now.month - 1))
    /\ UNCHANGED <<mode, now, office, updated_office, month_data, sink, rowsDone,
                   last, calls, ghostVars, requested, non2xx, nSend, nLogoff,
                   nEndSession>>

\* get_ledger up to the month loop: the account discovery request.
Discover(r) ==
    /\ pc = "discover"
    /\ nSend' = nSend + send(r).posts
    /\ requested' = requested \cup {[kind |-> "accounts", year |-> gl_year, month |-> 0]}
    /\ non2xx' = (non2xx \/ (r.net = "ok" /\ ~Is2xx(r.status)))
    /\ LET s == send(r)
           d == DiscoverRows(r.rows, 1, <<>>, save)
       IN Finish(IF s.exc # NoExc THEN Raised(s.exc)
                 ELSE IF ~r.xml THEN Raised("ExpatError")
                 ELSE IF d.err # NoExc THEN Raised(d.err)
                 ELSE AfterDiscovery(d.vals, d.save), "month")
    /\ UNCHANGED <<mode, now, clientVars, sink, rowsDone, last, calls, ghostVars,
                   opened, nLogon, nLogoff, nEndSession>>

\* One iteration of the month loop of get_ledger.
FetchMonth(r) ==
    /\ pc = "month"
    /\ nSend' = nSend + send(r).posts
    /\ requested' = requested \cup {[kind |-> "month", year |-> gl_year, month |-> gl_i]}
    /\ non2xx' = (non2xx \/ (r.net = "ok" /\ ~Is2xx(r.status)))
    /\ LET s == send(r)
           m == MonthRows(r.rows, 1, SeedDict(values_to_save), save, values_to_save)
       IN Finish(IF s.exc # NoExc THEN Raised(s.exc)
                 ELSE IF ~r.xml THEN Raised("ExpatError")
                 ELSE IF m.err # NoExc THEN Raised(m.err)
                 ELSE AfterMonth(m.dict, m.save), "month")
    /\ UNCHANGED <<mode, now, clientVars, sink, rowsDone, last, calls, ghostVars,
                   opened, nLogon, nLogoff, nEndSession>>

\* test: conn.change_office()
TestChangeOffice(r) ==
    /\ pc = "change_office"
    /\ nSend' = nSend + send(r).posts
    /\ exc' = change_office(r)
    /\ pc' = IF change_office(r) # NoExc THEN RaiseTarget ELSE "exit"
    /\ UNCHANGED <<mode, now, clientVars, ret, ledgerVars, month_data, sink, rowsDone,
                   last, calls, ghostVars, requested, non2xx, opened, nLogon, nLogoff,
                   nEndSession>>

\* Leaving the with block: __exit__ calls end_session; an exception of the
\* body, or of end_session, then ends the run.
Exit(r) ==
    /\ pc = "exit"
    /\ LET e == end_session(r) IN
       /\ sessionid' = e.sessionid
       /\ office' = e.office
       /\ updated_office' = e.updated_office
       /\ nEndSession' = nEndSession + 1
       /\ nLogoff' = nLogoff + (IF e.posted THEN 1 ELSE 0)
       /\ exc' = IF e.exc # NoExc THEN e.exc ELSE exc
       /\ pc' = IF e.exc # NoExc \/ exc # NoExc THEN "aborted"
                ELSE IF mode = "main" THEN "write" ELSE "list"
    /\ UNCHANGED <<mode, now, root_url, ret, ledgerVars, month_data, sink, rowsDone,
                   last, calls, ghostVars, requested, non2xx, opened, nLogon, nSend>>

\* The points of main.py:38-43, as a set.
Points(md) ==
    {[measurement |-> "twinfield-ledger-accounts", fields |-> md[k], time |-> k] :
        k \in DOMAIN md}

\* client.write_points(twinfield_json)
WritePoints(accepted) ==
    /\ pc = "write"
    /\ IF accepted
       THEN sink' = Append(sink, Points(month_data)) /\ pc' = "done" /\ UNCHANGED exc
       ELSE exc' = "InfluxDBClientError" /\ pc' = "aborted" /\ UNCHANGED sink
    /\ UNCHANGED <<mode, now, clientVars, ret, ledgerVars, month_data, rowsDone, last,
                   calls, ghostVars, requested, non2xx, opened, countVars>>

\* test: client.get_list_measurements()
ListMeasurements(accepted) ==
    /\ pc = "list"
    /\ IF accepted
       THEN pc' = "done" /\ UNCHANGED exc
       ELSE exc' = "InfluxDBClientError" /\ pc' = "aborted"
    /\ UNCHANGED <<mode, now, clientVars, ret, ledgerVars, month_data, sink, rowsDone,
                   last, calls, ghostVars, requested, non2xx, opened, countVars>>

Next ==
    \/ \E r \in LogonResponses : Enter(r)
    \/ \E r \in DataResponses(RunBodies) : Discover(r)
    \/ \E r \in DataResponses(RunBodies) : FetchMonth(r)
    \/ \E r \in OfficeResponses : TestChangeOffice(r)
    \/ \E r \in LogoffResponses : Exit(r)
    \/ \E a \in BOOLEAN : WritePoints(a)
    \/ \E a \in BOOLEAN : ListMeasurements(a)

Spec == Init /\ [][Next]_vars

(***************************************************************************)
(* get_ledger on an open session, row by row (main.py:66-128)              *)
(***************************************************************************)
\* The rows a response is made of.
Rows ==
    { <<>>,
      <<TextNode>>,
      <<Plain, Other>>,
      <<Val(1, 0, 50)>>,
      <<Dim(1), Val(1, 0, 25)>>,
      <<Dim(1), Val(1, 0, 50)>>,
      <<Other, Dim(2), Val(-1, 2, 50)>>,
      <<Val(1, 0, 75), Dim(2), Val(1, 0, 25)>>,
      <<Dim(3), Dim(1), Val(1, 1, 50)>>,
      <<Dim(2)>>,
      <<DimEmpty, Val(1, 0, 50)>>,
      <<Dim(1), ValBad>>,
      <<Dim(2), TextNode, Val(1, 0, 50)>> }

DataMeta == [net : Nets, status : Statuses, xml : BOOLEAN]

\* The cells of a row that are elements with field attribute f.
CellsOf(tds, f) == {j \in 1..Len(tds) : tds[j].node = "element" /\ tds[j].field = f}
HasDimCell(tds) == CellsOf(tds, "dim1") # {}
FirstCell(tds, f) == CHOOSE j \in CellsOf(tds, f) : \A k \in CellsOf(tds, f) : j <= k
\* The account a row is of, and the signed value it carries.
RowAccount(tds) == NodeValue(tds[FirstCell(tds, "dim1")])
HasAmount(tds) == CellsOf(tds, "valuesigned") # {}
RowAmount(tds) == Float(tds[FirstCell(tds, "valuesigned")])
Counts(tds, vals) == HasDimCell(tds) /\ HasAmount(tds) /\ InList(RowAccount(tds), vals)

InitLedger ==
    /\ mode = "ledger"
    /\ now \in [year : Years, month : {1}]
    /\ pc = "discover"
    /\ \E y \in Years, m \in 0..MaxMonth :
          ret = "caller" /\ gl_year = y /\ gl_month = m /\ gl_i = 0
    /\ sessionid = "sid1"
    /\ root_url = "https://c1"
    /\ office = "office1"
    /\ updated_office = FALSE
    /\ values_to_save = <<>>
    /\ yearmonthdict = EmptyDict
    /\ gl_month_data = EmptyDict
    /\ save = SaveUnbound
    /\ month_data = EmptyDict
    /\ sink = <<>>
    /\ exc = NoExc
    /\ rowsDone = 0
    /\ last = NoCall
    /\ calls = 0
    /\ discovered = {}
    /\ rawsum = [a \in Accounts |-> 0]
    /\ ref_dict = EmptyDict
    /\ ref_save = SaveUnbound
    /\ skipped = FALSE
    /\ rowfault = "none"
    /\ requested = {}
    /\ non2xx = FALSE
    /\ opened = FALSE
    /\ nLogon = 0 /\ nSend = 0 /\ nLogoff = 0 /\ nEndSession = 0

\* conn.send and parseString of the discovery request (main.py:71-75)
LSendDiscover(r) ==
    /\ pc = "discover"
    /\ nSend' = nSend + send(r).posts
    /\ requested' = requested \cup {[kind |-> "accounts", year |-> gl_year, month |-> 0]}
    /\ Finish(IF send(r).exc # NoExc THEN Raised(send(r).exc)
              ELSE IF ~r.xml THEN Raised("ExpatError")
              ELSE [exc |-> NoExc, returns |-> FALSE, frame |-> CurFrame],
              "discover_rows")
    /\ rowsDone' = 0
    /\ UNCHANGED <<mode, now, clientVars, sink, last, calls, non2xx, opened, ghostVars, nLogon,
                   nLogoff, nEndSession>>

\* One iteration of the loop of main.py:76-84
LDiscoverRow(tds) ==
    /\ pc = "discover_rows"
    /\ rowsDone < MaxRows
    /\ rowsDone' = rowsDone + 1
    /\ discovered' = discovered \cup (IF HasDimCell(tds) THEN {RowAccount(tds)} ELSE {})
    /\ LET s == DiscoverRowStep(values_to_save, save, tds) IN
       Finish([exc |-> s.err, returns |-> FALSE,
               frame |-> [CurFrame EXCEPT !.vals = s.vals, !.save = s.save]],
              "discover_rows")
    /\ UNCHANGED <<mode, now, clientVars, sink, last, calls, rawsum, ref_dict,
                   ref_save, skipped, rowfault, requested, non2xx, opened, countVars>>

\* The end of that loop, main.py:85-90
LDiscoverEnd ==
    /\ pc = "discover_rows"
    /\ Finish(AfterDiscovery(values_to_save, save), "month")
    /\ UNCHANGED <<mode, now, clientVars, sink, rowsDone, last, calls, ghostVars,
                   requested, non2xx, opened, countVars>>

\* The head of one iteration of the month loop, main.py:92-103
LSendMonth(r) ==
    /\ pc = "month"
    /\ nSend' = nSend + send(r).posts
    /\ requested' = requested \cup {[kind |-> "month", year |-> gl_year, month |-> gl_i]}
    /\ LET seeded == [CurFrame EXCEPT !.dict = SeedDict(values_to_save)] IN
       Finish(IF send(r).exc # NoExc THEN [Raised(send(r).exc) EXCEPT !.frame = seeded]
              ELSE IF ~r.xml THEN [Raised("ExpatError") EXCEPT !.frame = seeded]
              ELSE [exc |-> NoExc, returns |-> FALSE, frame |-> seeded],
              "month_rows")
    /\ rowsDone' = 0
    /\ rawsum' = [a \in Accounts |-> 0]
    /\ ref_dict' = SeedDict(values_to_save)
    /\ ref_save' = save
    /\ skipped' = FALSE
    /\ UNCHANGED <<mode, now, clientVars, sink, last, calls, non2xx, opened, discovered, rowfault,
                   nLogon, nLogoff, nEndSession>>

\* One iteration of the loop of main.py:104-118
LMonthRow(tds) ==
    /\ pc = "month_rows"
    /\ rowsDone < MaxRows
    /\ rowsDone' = rowsDone + 1
    /\ LET s == MonthRowStep(yearmonthdict, save, values_to_save, tds)
           t == MonthRowStep(ref_dict, ref_save, values_to_save, tds)
           counts == s.err = NoExc /\ Counts(tds, values_to_save)
       IN /\ Finish([exc |-> s.err, returns |-> FALSE,
                     frame |-> [CurFrame EXCEPT !.dict = s.dict, !.save = s.save]],
                    "month_rows")
          /\ rowfault' = IF s.err = NoExc THEN rowfault
                         ELSE IF HasDimCell(tds) THEN "other" ELSE "dimless"
          /\ skipped' = (skipped \/ ~HasDimCell(tds))
          /\ ref_dict' = IF HasDimCell(tds) THEN t.dict ELSE ref_dict
          /\ ref_save' = IF HasDimCell(tds) THEN t.save ELSE ref_save
          /\ rawsum' = IF counts
                       THEN [rawsum EXCEPT ![RowAccount(tds)] = @ + RowAmount(tds)]
                       ELSE rawsum
    /\ UNCHANGED <<mode, now, clientVars, sink, last, calls, discovered, requested,
                   non2xx, opened, countVars>>

\* The end of one iteration of the month loop, main.py:120-127
LMonthEnd ==
    /\ pc = "month_rows"
    /\ Finish(AfterMonth(yearmonthdict, save), "month")
    /\ UNCHANGED <<mode, now, clientVars, sink, rowsDone, last, calls, ghostVars,
                   requested, non2xx, opened, countVars>>

LedgerNext ==
    \/ \E r \in DataMeta : LSendDiscover(r)
    \/ \E tds \in Rows : LDiscoverRow(tds)
    \/ LDiscoverEnd
    \/ \E r \in DataMeta : LSendMonth(r)
    \/ \E tds \in Rows : LMonthRow(tds)
    \/ LMonthEnd

LedgerSpec == InitLedger /\ [][LedgerNext]_vars

(***************************************************************************)
(* A caller using a TwinfieldApi instance directly (twinfield.py:52-114)   *)
(***************************************************************************)
Fields == <<sessionid, root_url, office, updated_office>>

InitClient ==
    /\ mode = "api"
    /\ now \in [year : Years, month : {1}]
    /\ pc = "api"
    /\ InitCommon

ApiStartSession(r) ==
    /\ calls < MaxCalls
    /\ calls' = calls + 1
    /\ nLogon' = nLogon + 1
    /\ LET s == start_session(r) IN
       /\ sessionid' = s.sessionid
       /\ root_url' = s.root_url
       /\ opened' = (opened \/ (s.exc = NoExc /\ s.sessionid # None))
       /\ last' = [op |-> "start_session", had |-> has_session, exc |-> s.exc,
                   status |-> 0, returned |-> FALSE, posts |-> 1, before |-> Fields,
                   shape |-> IF last.shape = "new" /\ s.exc = NoExc /\ s.sessionid # None
                             THEN "open_closes" ELSE "other"]
    /\ UNCHANGED <<mode, now, pc, office, updated_office, ret, ledgerVars, month_data,
                   sink, exc, rowsDone, ghostVars, requested, non2xx, nSend, nLogoff,
                   nEndSession>>

ApiEndSession(r) ==
    /\ calls < MaxCalls
    /\ calls' = calls + 1
    /\ nEndSession' = nEndSession + 1
    /\ LET e == end_session(r) IN
       /\ sessionid' = e.sessionid
       /\ office' = e.office
       /\ updated_office' = e.updated_office
       /\ nLogoff' = nLogoff + (IF e.posted THEN 1 ELSE 0)
       /\ last' = [op |-> "end_session", had |-> has_session, exc |-> e.exc,
                   status |-> IF e.posted /\ r.net = "ok" THEN r.status ELSE 0,
                   returned |-> FALSE, posts |-> IF e.posted THEN 1 ELSE 0,
                   before |-> Fields,
                   shape |-> IF last.shape = "open_closes" THEN "open_closes" ELSE "other"]
    /\ UNCHANGED <<mode, now, pc, root_url, ret, ledgerVars, month_data, sink, exc,
                   rowsDone, ghostVars, requested, non2xx, opened, nLogon, nSend>>

ApiSend(r) ==
    /\ calls < MaxCalls
    /\ calls' = calls + 1
    /\ nSend' = nSend + send(r).posts
    /\ last' = [op |-> "send", had |-> has_session, exc |-> send(r).exc,
                status |-> IF r.net = "ok" THEN r.status ELSE 0,
                returned |-> send(r).returned, posts |-> send(r).posts,
                before |-> Fields, shape |-> "other"]
    /\ UNCHANGED <<mode, now, pc, clientVars, ret, ledgerVars, month_data, sink, exc,
                   rowsDone, ghostVars, requested, non2xx, opened, nLogon, nLogoff, nEndSession>>

ApiChangeOffice(r) ==
    /\ calls < MaxCalls
    /\ calls' = calls + 1
    /\ nSend' = nSend + send(r).posts
    /\ last' = [op |-> "change_office", had |-> has_session, exc |-> change_office(r),
                status |-> IF r.net = "ok" THEN r.status ELSE 0,
                returned |-> FALSE, posts |-> send(r).posts,
                before |-> Fields, shape |-> "other"]
    /\ UNCHANGED <<mode, now, pc, clientVars, ret, ledgerVars, month_data, sink, exc,
                   rowsDone, ghostVars, requested, non2xx, opened, nLogon, nLogoff, nEndSession>>

ClientNext ==
    \/ \E r \in LogonResponses : ApiStartSession(r)
    \/ \E r \in LogoffResponses : ApiEndSession(r)
    \/ \E r \in DataMeta : ApiSend(r)
    \/ \E r \in OfficeResponses : ApiChangeOffice(r)

ClientSpec == InitClient /\ [][ClientNext]_vars

(***************************************************************************)
(* Properties                                                              *)
(***************************************************************************)
FirstOfMonth(y, m) == [year |-> y, month |-> m, day |-> 1]

\* The months of the running get_ledger call that are finished, the key of
\* the last of them and its stored bucket.
LastDone == Cardinality(DOMAIN gl_month_data)
MonthDone == pc \in {"month", "returned"} /\ LastDone >= 1
LastKey == FirstOfMonth(gl_year, LastDone)
LastBucket == gl_month_data[LastKey]

\* C1: when get_ledger(year, N) returns, the result has one bucket for each
\* of the months 1..N, and every bucket's key set is exactly the set of
\* accounts of the discovery response; an account without rows in the last
\* month is in its bucket with value 0.
C1_BucketKeys ==
    /\ \A k \in DOMAIN gl_month_data : DOMAIN gl_month_data[k] = discovered
    /\ pc = "returned" =>
          /\ DOMAIN month_data = {FirstOfMonth(gl_year, m) : m \in 1..gl_month}
          /\ \A k \in DOMAIN month_data : DOMAIN month_data[k] = discovered
    /\ MonthDone =>
          \A a \in discovered : rawsum[a] = 0 => LastBucket[a] = 0

C1_Witness ==
    /\ pc = "returned"
    /\ gl_month = 2
    /\ Cardinality(discovered) = 2
    /\ \E a \in discovered, b \in discovered :
          rawsum[a] = 0 /\ LastBucket[a] = 0 /\ LastBucket[b] # 0

\* C3: the bucket value of an account is its rows' amounts summed and the
\* sum rounded once.
C3_RoundedOnce ==
    MonthDone =>
       /\ LastKey \in DOMAIN gl_month_data
       /\ \A a \in DOMAIN LastBucket : LastBucket[a] = Round(rawsum[a])

\* Rows 0.25 and 0.5 of account 1: the sum 0.75 is stored as 1, where
\* rounding each row gives 0.
C3_Witness ==
    /\ MonthDone
    /\ rowsDone = 2
    /\ 1 \in DOMAIN LastBucket
    /\ rawsum[1] = 3
    /\ LastBucket[1] = 1

\* n is an integer nearest to the amount of q quarters.
Nearest(q, n) == 4 * n - 2 <= q /\ q <= 4 * n + 2
IsTie(q, n) == q = 4 * n - 2 \/ q = 4 * n + 2

\* C9 as amended: every stored value is the month's sum rounded to the
\* nearest integer, a tie going to the even neighbour.
C9_HalfEven ==
    MonthDone =>
       \A a \in DOMAIN LastBucket :
          /\ Nearest(rawsum[a], LastBucket[a])
          /\ IsTie(rawsum[a], LastBucket[a]) => LastBucket[a] % 2 = 0

\* C9 as claimed: a tie goes away from zero.
C9_HalfAway ==
    MonthDone =>
       \A a \in DOMAIN LastBucket :
          /\ Nearest(rawsum[a], LastBucket[a])
          /\ IsTie(rawsum[a], LastBucket[a]) =>
                IF rawsum[a] > 0 THEN 4 * LastBucket[a] > rawsum[a]
                ELSE 4 * LastBucket[a] < rawsum[a]

\* Sums 0.5 and -2.5 are stored.
C9_Witness ==
    /\ MonthDone
    /\ \E a \in DOMAIN LastBucket : rawsum[a] = 2 /\ LastBucket[a] = 0
    /\ \E a \in DOMAIN LastBucket : rawsum[a] = -10 /\ LastBucket[a] = -2

\* C10: a row without dimension cell raises no error, and the bucket is the
\* one the response without those rows gives.
C10_DimlessSkipped ==
    /\ rowfault # "dimless"
    /\ MonthDone => LastBucket = RoundDict(ref_dict)

\* The dataset keys of a run in month c <= 2: the prior year's twelve
\* months and the months before c of the current year.
FirstDays(y, months) == {FirstOfMonth(y, m) : m \in months}
MonthsRequested(y) == {q.month : q \in {x \in requested : x.kind = "month" /\ x.year = y}}
EarlyRunDone == mode = "main" /\ pc = "done" /\ now.month < 3

RangeRequests ==
    LET call(y, n) ==
            {[kind |-> "accounts", year |-> y, month |-> 0]}
               \cup {[kind |-> "month", year |-> y, month |-> m] : m \in 1..n}
    IN call(now.year, now.month - 1)
          \cup (IF now.month < 3 THEN call(now.year - 1, December) ELSE {})

\* C4: at most one batch is written, and only after every request of the
\* range was sent; none is written after a failure, nor when a data request
\* was answered with a non-2xx status.
C4_AllOrNothing ==
    /\ Len(sink) <= 1
    /\ sink # <<>> => requested = RangeRequests
    /\ exc # NoExc => sink = <<>>
    /\ non2xx => sink = <<>>

\* C5: after end_session on a client that held a session, the token is
\* cleared, whatever the outcome.
C5_TokenCleared ==
    (last.op = "end_session" /\ last.had) => ~has_session

\* C6: send answered with a non-2xx status raises and returns nothing, after
\* exactly one request.
C6_SendRaises ==
    (last.op = "send" /\ last.had /\ last.status # 0 /\ ~Is2xx(last.status)) =>
       /\ last.exc = "TransportError"
       /\ ~last.returned
       /\ last.posts = 1

\* C8: end_session without a session token posts nothing, raises nothing and
\* changes no field; closes repeated after one successful open post exactly
\* one logoff request in total.
C8_CloseIdempotent ==
    /\ (last.op = "end_session" /\ ~last.had) =>
          last.posts = 0 /\ last.exc = NoExc /\ Fields = last.before
    /\ (last.op = "end_session" /\ last.shape = "open_closes") => nLogoff = 1

\* C7: once logon has succeeded, end_session is called exactly once on the
\* way out of the with block, however the body ends, and the session's
\* logoff request is posted before the run ends.
Terminated == pc \in {"done", "aborted"}
Left == pc \in {"write", "list", "done", "aborted"}
C7_ClosedOnce ==
    /\ [](opened => /\ nEndSession <= 1
                    /\ nLogoff = nEndSession
                    /\ Left <=> nEndSession = 1)
    /\ [](opened => <>(Terminated /\ nEndSession = 1 /\ nLogoff = 1))

\* The body failed on a response and the session was closed all the same.
C7_Witness ==
    /\ opened
    /\ pc = "aborted"
    /\ exc = "ExpatError"
    /\ nEndSession = 1
    /\ nLogoff = 1

FairSpec == Spec /\ WF_vars(Next)

====
